---- MODULE Spec2Model ----
(***************************************************************************)
(* Model of boost::interprocess::interprocess_condition, the emulated      *)
(* condition variable of src/include/boost/interprocess/sync/win32/        *)
(* interprocess_condition.hpp.  Every interlocked operation and every      *)
(* mutex operation of notify() and do_timed_wait() is one step of the      *)
(* calling thread; threads interleave freely between steps.  Each thread   *)
(* makes one call: the condition keeps no state per thread, so a second    *)
(* call by a thread is the first call of another one.                      *)
(***************************************************************************)
EXTENDS Naturals, Integers, FiniteSets

\* Bounds of the model.
NumThreads == 3     \* threads attached to the condition
MaxTime == 1        \* last value of the clock

Threads == 1..NumThreads
NoThread == 0
Times == 0..MaxTime

\* The operations a caller may invoke.
WaitOps == {"wait", "timed_wait"}
NotifyOps == {"notify_one", "notify_all"}

VARIABLES
    m_command,          \* the command word
    m_num_waiters,      \* the waiter count
    m_enter_mut,        \* TRUE when the enter mutex is locked
    m_check_mut,        \* TRUE when the check mutex is locked
    mut,                \* the thread owning the external mutex, or NoThread
    now,                \* microsec_clock::universal_time()
    pc,                 \* each thread's position
    op,                 \* each thread's call: "none" before it starts one
    ret,                \* each thread's returned value: "none" until it returns
    abs_time,           \* each thread's deadline argument
    timed_out,          \* each thread's local timed_out
    unlock_enter_mut,   \* each thread's local unlock_enter_mut
    result,             \* each thread's local result of the compare-exchange
    notified,           \* history: a notify wrote m_command while the thread was registered
    one_pending         \* history: NOTIFY_ONE commands written minus NOTIFY_ONE commands consumed

vars == <<m_command, m_num_waiters, m_enter_mut, m_check_mut, mut, now, pc,
          op, ret, abs_time, timed_out, unlock_enter_mut, result, notified,
          one_pending>>

shared == <<m_command, m_num_waiters, m_enter_mut, m_check_mut>>
locals == <<abs_time, timed_out, unlock_enter_mut, result>>

\* do_wait passes tout_enabled = false, the two-argument do_timed_wait true.
tout_enabled(t) == op[t] = "timed_wait"

\* BOOST_INTERLOCKED_COMPARE_EXCHANGE(dest, exch, comp): the value stored.
CompareExchange(dest, exch, comp) == IF dest = comp THEN exch ELSE dest

\* The constructor.
Init ==
    /\ m_command = "SLEEP"
    /\ m_num_waiters = 0
    /\ m_enter_mut = FALSE
    /\ m_check_mut = FALSE
    /\ mut = NoThread
    /\ now = 0
    /\ pc = [t \in Threads |-> "idle"]
    /\ op = [t \in Threads |-> "none"]
    /\ ret = [t \in Threads |-> "none"]
    /\ abs_time = [t \in Threads |-> 0]
    /\ timed_out = [t \in Threads |-> FALSE]
    /\ unlock_enter_mut = [t \in Threads |-> FALSE]
    /\ result = [t \in Threads |-> "SLEEP"]
    /\ notified = [t \in Threads |-> FALSE]
    /\ one_pending = 0

\* Positions of do_timed_wait between the increment of m_num_waiters and the
\* thread's own decrement of it.
CountedPcs == {"w_unlock_mut", "w_unlock_enter", "w_spin", "w_yield", "w_tout",
               "w_lock_check", "w_cas", "w_one_dec", "w_all_dec"}

\* Thread t has incremented m_num_waiters and not yet decremented it.
Registered(t) ==
    \/ pc[t] \in CountedPcs
    \/ pc[t] = "w_unlock_check" /\ result[t] = "SLEEP"

\* The position a call returns to, and the value it returns; the call's
\* arguments and locals end with it.
Return(t, v) ==
    /\ pc' = [pc EXCEPT ![t] = IF mut' = t THEN "h_unlock" ELSE "idle"]
    /\ ret' = [ret EXCEPT ![t] = v]
    /\ abs_time' = [abs_time EXCEPT ![t] = 0]
    /\ timed_out' = [timed_out EXCEPT ![t] = FALSE]
    /\ unlock_enter_mut' = [unlock_enter_mut EXCEPT ![t] = FALSE]
    /\ result' = [result EXCEPT ![t] = "SLEEP"]

----------------------------------------------------------------------------
\* The callers.

\* A thread decides to wait: it locks the external mutex first.
StartWait(t) ==
    /\ pc[t] = "idle"
    /\ op[t] = "none"
    /\ \/ /\ op' = [op EXCEPT ![t] = "wait"]
          /\ UNCHANGED abs_time
       \/ /\ op' = [op EXCEPT ![t] = "timed_wait"]
          /\ \E d \in Times : abs_time' = [abs_time EXCEPT ![t] = d]
    /\ pc' = [pc EXCEPT ![t] = "h_lock"]
    /\ UNCHANGED <<shared, mut, now, ret, timed_out, unlock_enter_mut, result, notified, one_pending>>

\* A thread decides to notify, holding the external mutex or not.
StartNotify(t) ==
    /\ pc[t] = "idle"
    /\ op[t] = "none"
    /\ \E o \in NotifyOps : op' = [op EXCEPT ![t] = o]
    /\ \E locked \in BOOLEAN :
        pc' = [pc EXCEPT ![t] = IF locked THEN "h_lock" ELSE "n_lock_enter"]
    /\ UNCHANGED <<shared, mut, now, ret, locals, notified, one_pending>>

\* The caller's mut.lock() before the call.
CallerLock(t) ==
    /\ pc[t] = "h_lock"
    /\ mut = NoThread
    /\ mut' = t
    /\ pc' = [pc EXCEPT ![t] = IF op[t] \in WaitOps THEN "w_entry" ELSE "n_lock_enter"]
    /\ UNCHANGED <<shared, now, op, ret, locals, notified, one_pending>>

\* The caller's mut.unlock() after the call.
CallerUnlock(t) ==
    /\ pc[t] = "h_unlock"
    /\ mut = t
    /\ mut' = NoThread
    /\ pc' = [pc EXCEPT ![t] = "idle"]
    /\ UNCHANGED <<shared, now, op, ret, locals, notified, one_pending>>

\* Time passes.
Tick ==
    /\ now < MaxTime
    /\ now' = now + 1
    /\ UNCHANGED <<shared, mut, pc, op, ret, locals, notified, one_pending>>

----------------------------------------------------------------------------
\* notify(command)

\* NotifyLockEnter going on without waiting for the mutex.
NotifyLockEnter_NoWait(t) ==
    /\ pc[t] = "n_lock_enter"
    /\ m_enter_mut' = TRUE
    /\ pc' = [pc EXCEPT ![t] = "n_read"]
    /\ UNCHANGED <<m_command, m_num_waiters, m_check_mut, mut, now, op, ret, locals,
                   notified, one_pending>>

\* m_enter_mut.lock()
NotifyLockEnter(t) ==
    /\ pc[t] = "n_lock_enter"
    /\ ~m_enter_mut
    /\ m_enter_mut' = TRUE
    /\ pc' = [pc EXCEPT ![t] = "n_read"]
    /\ UNCHANGED <<m_command, m_num_waiters, m_check_mut, mut, now, op, ret, locals, notified, one_pending>>

\* NotifyRead going on to write the command whatever m_num_waiters is.
NotifyRead_IgnoreCount(t) ==
    /\ pc[t] = "n_read"
    /\ pc' = [pc EXCEPT ![t] = "n_cas"]
    /\ UNCHANGED <<shared, mut, now, op, ret, locals, notified, one_pending>>

\* if(!exchange_and_add(&m_num_waiters, 0))
NotifyRead(t) ==
    /\ pc[t] = "n_read"
    /\ pc' = [pc EXCEPT ![t] = IF m_num_waiters = 0 THEN "n_unlock" ELSE "n_cas"]
    /\ UNCHANGED <<shared, mut, now, op, ret, locals, notified, one_pending>>

\* NotifyUnlock returning without the unlock.
NotifyUnlock_KeepLocked(t) ==
    /\ pc[t] = "n_unlock"
    /\ UNCHANGED <<shared, mut, now, op>>
    /\ notified' = [notified EXCEPT ![t] = FALSE]
    /\ UNCHANGED one_pending
    /\ Return(t, "void")

\* m_enter_mut.unlock(); return;
NotifyUnlock(t) ==
    /\ pc[t] = "n_unlock"
    /\ m_enter_mut' = FALSE
    /\ UNCHANGED <<m_command, m_num_waiters, m_check_mut, mut, now, op>>
    /\ notified' = [notified EXCEPT ![t] = FALSE]
    /\ UNCHANGED one_pending
    /\ Return(t, "void")

\* The command a notify call writes.
NotifyCommand(t) == IF op[t] = "notify_one" THEN "NOTIFY_ONE" ELSE "NOTIFY_ALL"

\* NotifyCas unlocking the enter mutex itself once the command is written.
NotifyCas_ReleaseLock(t) ==
    /\ pc[t] = "n_cas"
    /\ m_command' = CompareExchange(m_command, NotifyCommand(t), "SLEEP")
    /\ m_enter_mut' = FALSE
    /\ UNCHANGED <<m_num_waiters, m_check_mut, mut, now, op>>
    /\ notified' = [u \in DOMAIN notified |->
            notified[u] \/ (m_command' # m_command /\ Registered(u))]
    /\ one_pending' = IF m_command' # m_command /\ m_command' = "NOTIFY_ONE"
                      THEN one_pending + 1 ELSE one_pending
    /\ Return(t, "void")

\* COMPARE_EXCHANGE(&m_command, command, SLEEP); the enter mutex stays locked.
NotifyCas(t) ==
    /\ pc[t] = "n_cas"
    /\ m_command' = CompareExchange(m_command, NotifyCommand(t), "SLEEP")
    /\ UNCHANGED <<m_num_waiters, m_enter_mut, m_check_mut, mut, now, op>>
    /\ notified' = [u \in DOMAIN notified |->
            notified[u] \/ (m_command' # m_command /\ Registered(u))]
    /\ one_pending' = IF m_command' # m_command /\ m_command' = "NOTIFY_ONE"
                      THEN one_pending + 1 ELSE one_pending
    /\ Return(t, "void")

----------------------------------------------------------------------------
\* do_timed_wait(tout_enabled, abs_time, mut)

\* Expired with now > abs_time.
Expired_Strict(t) == tout_enabled(t) /\ now > abs_time[t]

\* now >= abs_time, for a call with a deadline.
Expired(t) == tout_enabled(t) /\ now >= abs_time[t]

\* now = universal_time(); if(tout_enabled){ if(now >= abs_time) return false; }
WaitEntry(t) ==
    /\ pc[t] = "w_entry"
    /\ IF Expired(t)
       THEN /\ UNCHANGED mut
            /\ Return(t, "false")
       ELSE /\ pc' = [pc EXCEPT ![t] = "w_lock_enter"]
            /\ UNCHANGED <<mut, ret, locals>>
    /\ UNCHANGED <<shared, now, op, notified, one_pending>>

\* WaitLockEnter going on without waiting for the mutex.
WaitLockEnter_NoWait(t) ==
    /\ pc[t] = "w_lock_enter"
    /\ m_enter_mut' = TRUE
    /\ pc' = [pc EXCEPT ![t] = "w_incr"]
    /\ UNCHANGED <<m_command, m_num_waiters, m_check_mut, mut, now, op, ret, locals,
                   notified, one_pending>>

\* scoped_lock<interprocess_mutex> lock(m_enter_mut);
WaitLockEnter(t) ==
    /\ pc[t] = "w_lock_enter"
    /\ ~m_enter_mut
    /\ m_enter_mut' = TRUE
    /\ pc' = [pc EXCEPT ![t] = "w_incr"]
    /\ UNCHANGED <<m_command, m_num_waiters, m_check_mut, mut, now, op, ret, locals, notified, one_pending>>

\* WaitIncrement with the increment lost.
WaitIncrement_NoIncrement(t) ==
    /\ pc[t] = "w_incr"
    /\ notified' = [notified EXCEPT ![t] = FALSE]
    /\ pc' = [pc EXCEPT ![t] = "w_unlock_mut"]
    /\ UNCHANGED <<shared, mut, now, op, ret, locals, one_pending>>

\* BOOST_INTERLOCKED_INCREMENT(&m_num_waiters);
WaitIncrement(t) ==
    /\ pc[t] = "w_incr"
    /\ m_num_waiters' = m_num_waiters + 1
    /\ notified' = [notified EXCEPT ![t] = FALSE]
    /\ UNCHANGED one_pending
    /\ pc' = [pc EXCEPT ![t] = "w_unlock_mut"]
    /\ UNCHANGED <<m_command, m_enter_mut, m_check_mut, mut, now, op, ret, locals>>

\* WaitUnlockMut without mut.unlock().
WaitUnlockMut_KeepLocked(t) ==
    /\ pc[t] = "w_unlock_mut"
    /\ pc' = [pc EXCEPT ![t] = "w_unlock_enter"]
    /\ UNCHANGED <<shared, mut, now, op, ret, locals, notified, one_pending>>

\* mut.unlock();
WaitUnlockMut(t) ==
    /\ pc[t] = "w_unlock_mut"
    /\ mut' = NoThread
    /\ pc' = [pc EXCEPT ![t] = "w_unlock_enter"]
    /\ UNCHANGED <<shared, now, op, ret, locals, notified, one_pending>>

\* The scoped lock's destructor; bool timed_out = false, unlock_enter_mut = false;
WaitUnlockEnter(t) ==
    /\ pc[t] = "w_unlock_enter"
    /\ m_enter_mut' = FALSE
    /\ timed_out' = [timed_out EXCEPT ![t] = FALSE]
    /\ unlock_enter_mut' = [unlock_enter_mut EXCEPT ![t] = FALSE]
    /\ pc' = [pc EXCEPT ![t] = "w_spin"]
    /\ UNCHANGED <<m_command, m_num_waiters, m_check_mut, mut, now, op, ret,
                   abs_time, result, notified, one_pending>>

\* while(exchange_and_add(&m_command, 0) == SLEEP)
WaitSpin(t) ==
    /\ pc[t] = "w_spin"
    /\ pc' = [pc EXCEPT ![t] = IF m_command = "SLEEP" THEN "w_yield" ELSE "w_lock_check"]
    /\ UNCHANGED <<shared, mut, now, op, ret, locals, notified, one_pending>>

\* WaitYield trying the lock without looking at tout_enabled or the deadline.
WaitYield_NoDeadline(t) ==
    /\ pc[t] = "w_yield"
    /\ IF ~m_enter_mut
       THEN /\ m_enter_mut' = TRUE
            /\ timed_out' = [timed_out EXCEPT ![t] = TRUE]
            /\ pc' = [pc EXCEPT ![t] = "w_tout"]
       ELSE /\ pc' = [pc EXCEPT ![t] = "w_spin"]
            /\ UNCHANGED <<m_enter_mut, timed_out>>
    /\ UNCHANGED <<m_command, m_num_waiters, m_check_mut, mut, now, op, ret,
                   abs_time, unlock_enter_mut, result, notified, one_pending>>

\* WaitYield declaring the timeout whatever try_lock returns.
WaitYield_IgnoreTryLock(t) ==
    /\ pc[t] = "w_yield"
    /\ IF Expired(t)
       THEN /\ m_enter_mut' = TRUE
            /\ timed_out' = [timed_out EXCEPT ![t] = TRUE]
            /\ pc' = [pc EXCEPT ![t] = "w_tout"]
       ELSE /\ pc' = [pc EXCEPT ![t] = "w_spin"]
            /\ UNCHANGED <<m_enter_mut, timed_out>>
    /\ UNCHANGED <<m_command, m_num_waiters, m_check_mut, mut, now, op, ret,
                   abs_time, unlock_enter_mut, result, notified, one_pending>>

\* sched_yield(); the deadline check and timed_out = m_enter_mut.try_lock();
\* a failed try_lock continues the spin, a successful one breaks out of it.
WaitYield(t) ==
    /\ pc[t] = "w_yield"
    /\ IF Expired(t) /\ ~m_enter_mut
       THEN /\ m_enter_mut' = TRUE
            /\ timed_out' = [timed_out EXCEPT ![t] = TRUE]
            /\ pc' = [pc EXCEPT ![t] = "w_tout"]
       ELSE /\ pc' = [pc EXCEPT ![t] = "w_spin"]
            /\ UNCHANGED <<m_enter_mut, timed_out>>
    /\ UNCHANGED <<m_command, m_num_waiters, m_check_mut, mut, now, op, ret,
                   abs_time, unlock_enter_mut, result, notified, one_pending>>

\* WaitTimeout without the decrement.
WaitTimeout_NoDecrement(t) ==
    /\ pc[t] = "w_tout"
    /\ unlock_enter_mut' = [unlock_enter_mut EXCEPT ![t] = TRUE]
    /\ pc' = [pc EXCEPT ![t] = "w_exit"]
    /\ UNCHANGED <<shared, mut, now, op, ret, abs_time, timed_out, result, notified, one_pending>>

\* if(tout_enabled && timed_out){ DECREMENT(&m_num_waiters); unlock_enter_mut = true; break; }
WaitTimeout(t) ==
    /\ pc[t] = "w_tout"
    /\ m_num_waiters' = m_num_waiters - 1
    /\ unlock_enter_mut' = [unlock_enter_mut EXCEPT ![t] = TRUE]
    /\ pc' = [pc EXCEPT ![t] = "w_exit"]
    /\ UNCHANGED <<m_command, m_enter_mut, m_check_mut, mut, now, op, ret,
                   abs_time, timed_out, result, notified, one_pending>>

\* scoped_lock<interprocess_mutex> lock(m_check_mut);
WaitLockCheck(t) ==
    /\ pc[t] = "w_lock_check"
    /\ ~m_check_mut
    /\ m_check_mut' = TRUE
    /\ pc' = [pc EXCEPT ![t] = "w_cas"]
    /\ UNCHANGED <<m_command, m_num_waiters, m_enter_mut, mut, now, op, ret, locals, notified, one_pending>>

\* The branch taken on the compare-exchange's result.
AfterCas(r) ==
    IF r = "SLEEP" THEN "w_unlock_check"
    ELSE IF r = "NOTIFY_ONE" THEN "w_one_dec"
    ELSE "w_all_dec"

\* WaitCas with the exchange lost: the command is read but left as it is.
WaitCas_KeepCommand(t) ==
    /\ pc[t] = "w_cas"
    /\ result' = [result EXCEPT ![t] = m_command]
    /\ pc' = [pc EXCEPT ![t] = AfterCas(m_command)]
    /\ one_pending' = IF m_command = "NOTIFY_ONE" THEN one_pending - 1 ELSE one_pending
    /\ UNCHANGED <<shared, mut, now, op, ret, abs_time, timed_out, unlock_enter_mut,
                   notified>>

\* long result = COMPARE_EXCHANGE(&m_command, SLEEP, NOTIFY_ONE);
WaitCas(t) ==
    /\ pc[t] = "w_cas"
    /\ result' = [result EXCEPT ![t] = m_command]
    /\ m_command' = CompareExchange(m_command, "SLEEP", "NOTIFY_ONE")
    /\ pc' = [pc EXCEPT ![t] = AfterCas(m_command)]
    /\ one_pending' = IF m_command = "NOTIFY_ONE" THEN one_pending - 1 ELSE one_pending
    /\ UNCHANGED <<m_num_waiters, m_enter_mut, m_check_mut, mut, now, op, ret,
                   abs_time, timed_out, unlock_enter_mut, notified>>

\* WaitOneDecrement with the DECREMENT lost.
WaitOneDecrement_NoDecrement(t) ==
    /\ pc[t] = "w_one_dec"
    /\ unlock_enter_mut' = [unlock_enter_mut EXCEPT ![t] = TRUE]
    /\ pc' = [pc EXCEPT ![t] = "w_unlock_check"]
    /\ UNCHANGED <<shared, mut, now, op, ret, abs_time, timed_out, result,
                   notified, one_pending>>

\* WaitOneDecrement without unlock_enter_mut = true.
WaitOneDecrement_NoFlag(t) ==
    /\ pc[t] = "w_one_dec"
    /\ m_num_waiters' = m_num_waiters - 1
    /\ pc' = [pc EXCEPT ![t] = "w_unlock_check"]
    /\ UNCHANGED <<m_command, m_enter_mut, m_check_mut, mut, now, op, ret, locals,
                   notified, one_pending>>

\* result == NOTIFY_ONE: unlock_enter_mut = true; DECREMENT(&m_num_waiters); break;
WaitOneDecrement(t) ==
    /\ pc[t] = "w_one_dec"
    /\ unlock_enter_mut' = [unlock_enter_mut EXCEPT ![t] = TRUE]
    /\ m_num_waiters' = m_num_waiters - 1
    /\ pc' = [pc EXCEPT ![t] = "w_unlock_check"]
    /\ UNCHANGED <<m_command, m_enter_mut, m_check_mut, mut, now, op, ret,
                   abs_time, timed_out, result, notified, one_pending>>

\* WaitAllDecrement with every waiter taking itself for the last one.
WaitAllDecrement_AlwaysLast(t) ==
    /\ pc[t] = "w_all_dec"
    /\ m_num_waiters' = m_num_waiters - 1
    /\ unlock_enter_mut' = [unlock_enter_mut EXCEPT ![t] = TRUE]
    /\ pc' = [pc EXCEPT ![t] = "w_all_cas"]
    /\ UNCHANGED <<m_command, m_enter_mut, m_check_mut, mut, now, op, ret,
                   abs_time, timed_out, result, notified, one_pending>>

\* NOTIFY_ALL: unlock_enter_mut = DECREMENT(&m_num_waiters) == 0;
WaitAllDecrement(t) ==
    /\ pc[t] = "w_all_dec"
    /\ m_num_waiters' = m_num_waiters - 1
    /\ unlock_enter_mut' = [unlock_enter_mut EXCEPT ![t] = (m_num_waiters' = 0)]
    /\ pc' = [pc EXCEPT ![t] = IF m_num_waiters' = 0 THEN "w_all_cas" ELSE "w_unlock_check"]
    /\ UNCHANGED <<m_command, m_enter_mut, m_check_mut, mut, now, op, ret,
                   abs_time, timed_out, result, notified, one_pending>>

\* WaitAllCas with the last waiter leaving NOTIFY_ALL in m_command.
WaitAllCas_KeepCommand(t) ==
    /\ pc[t] = "w_all_cas"
    /\ pc' = [pc EXCEPT ![t] = "w_unlock_check"]
    /\ UNCHANGED <<shared, mut, now, op, ret, locals, notified, one_pending>>

\* if(unlock_enter_mut){ COMPARE_EXCHANGE(&m_command, SLEEP, NOTIFY_ALL); } break;
WaitAllCas(t) ==
    /\ pc[t] = "w_all_cas"
    /\ m_command' = CompareExchange(m_command, "SLEEP", "NOTIFY_ALL")
    /\ pc' = [pc EXCEPT ![t] = "w_unlock_check"]
    /\ UNCHANGED <<m_num_waiters, m_enter_mut, m_check_mut, mut, now, op, ret, locals, notified, one_pending>>

\* The check lock's destructor, on continue (result == SLEEP) and on break.
WaitUnlockCheck(t) ==
    /\ pc[t] = "w_unlock_check"
    /\ m_check_mut' = FALSE
    /\ pc' = [pc EXCEPT ![t] = IF result[t] = "SLEEP" THEN "w_spin" ELSE "w_exit"]
    /\ UNCHANGED <<m_command, m_num_waiters, m_enter_mut, mut, now, op, ret, locals, notified, one_pending>>

\* WaitExit leaving m_enter_mut locked whatever unlock_enter_mut says.
WaitExit_NoUnlock(t) ==
    /\ pc[t] = "w_exit"
    /\ pc' = [pc EXCEPT ![t] = "w_relock"]
    /\ UNCHANGED <<shared, mut, now, op, ret, locals, notified, one_pending>>

\* WaitExit unlocking m_enter_mut whatever unlock_enter_mut says.
WaitExit_AlwaysUnlock(t) ==
    /\ pc[t] = "w_exit"
    /\ m_enter_mut' = FALSE
    /\ pc' = [pc EXCEPT ![t] = "w_relock"]
    /\ UNCHANGED <<m_command, m_num_waiters, m_check_mut, mut, now, op, ret, locals, notified, one_pending>>

\* if(unlock_enter_mut){ m_enter_mut.unlock(); }
WaitExit(t) ==
    /\ pc[t] = "w_exit"
    /\ m_enter_mut' = IF unlock_enter_mut[t] THEN FALSE ELSE m_enter_mut
    /\ pc' = [pc EXCEPT ![t] = "w_relock"]
    /\ UNCHANGED <<m_command, m_num_waiters, m_check_mut, mut, now, op, ret, locals, notified, one_pending>>

\* WaitRelock returning without mut.lock().
WaitRelock_NoLock(t) ==
    /\ pc[t] = "w_relock"
    /\ UNCHANGED <<shared, mut, now, op>>
    /\ notified' = [notified EXCEPT ![t] = FALSE]
    /\ UNCHANGED one_pending
    /\ Return(t, IF timed_out[t] THEN "false" ELSE "true")

\* mut.lock(); return !timed_out;
WaitRelock(t) ==
    /\ pc[t] = "w_relock"
    /\ mut = NoThread
    /\ mut' = t
    /\ notified' = [notified EXCEPT ![t] = FALSE]
    /\ UNCHANGED one_pending
    /\ Return(t, IF timed_out[t] THEN "false" ELSE "true")
    /\ UNCHANGED <<shared, now, op>>

----------------------------------------------------------------------------
\* The steps of notify().
Notify(t) ==
    \/ NotifyLockEnter(t)
    \/ NotifyRead(t)
    \/ NotifyUnlock(t)
    \/ NotifyCas(t)

\* The steps of do_timed_wait().
Wait(t) ==
    \/ WaitEntry(t)
    \/ WaitLockEnter(t)
    \/ WaitIncrement(t)
    \/ WaitUnlockMut(t)
    \/ WaitUnlockEnter(t)
    \/ WaitSpin(t)
    \/ WaitYield(t)
    \/ WaitTimeout(t)
    \/ WaitLockCheck(t)
    \/ WaitCas(t)
    \/ WaitOneDecrement(t)
    \/ WaitAllDecrement(t)
    \/ WaitAllCas(t)
    \/ WaitUnlockCheck(t)
    \/ WaitExit(t)
    \/ WaitRelock(t)

\* The steps of a caller around its call.
Caller(t) ==
    \/ StartWait(t)
    \/ StartNotify(t)
    \/ CallerLock(t)
    \/ CallerUnlock(t)

\* A step of thread t that is part of a call it has started.
Run(t) == Notify(t) \/ Wait(t) \/ CallerLock(t) \/ CallerUnlock(t)

Next == Tick \/ \E t \in Threads : Caller(t) \/ Notify(t) \/ Wait(t)

Spec == Init /\ [][Next]_vars

\* Every thread inside a call keeps running; whether a thread starts a call,
\* and whether time passes, is left open.
Fairness == \A t \in Threads : WF_vars(Run(t))

FairSpec == Spec /\ Fairness

\* The same condition with one more thread attached, for the properties that
\* need two notifications and two waiters at once.
MoreThreads == 1..(NumThreads + 1)

InitMore ==
    /\ m_command = "SLEEP"
    /\ m_num_waiters = 0
    /\ m_enter_mut = FALSE
    /\ m_check_mut = FALSE
    /\ mut = NoThread
    /\ now = 0
    /\ pc = [t \in MoreThreads |-> "idle"]
    /\ op = [t \in MoreThreads |-> "none"]
    /\ ret = [t \in MoreThreads |-> "none"]
    /\ abs_time = [t \in MoreThreads |-> 0]
    /\ timed_out = [t \in MoreThreads |-> FALSE]
    /\ unlock_enter_mut = [t \in MoreThreads |-> FALSE]
    /\ result = [t \in MoreThreads |-> "SLEEP"]
    /\ notified = [t \in MoreThreads |-> FALSE]
    /\ one_pending = 0

NextMore == Tick \/ \E t \in MoreThreads : Caller(t) \/ Notify(t) \/ Wait(t)

SpecMore == InitMore /\ [][NextMore]_vars

----------------------------------------------------------------------------
\* Vocabulary of the properties.

\* Positions of the while(1) loop before the compare-exchange of line 144
\* has returned: the spin, the yield, the check lock and the exchange itself.
LoopPcs == {"w_spin", "w_yield", "w_lock_check", "w_cas"}

\* Thread t is in the while(1) loop and on no exit path: at one of LoopPcs,
\* or at the check lock's unlock on the continue of line 148 (the unlock on
\* the breaks of lines 157 and 169 comes after the thread's decrement).
InLoop(t) ==
    \/ pc[t] \in LoopPcs
    \/ pc[t] = "w_unlock_check" /\ result[t] = "SLEEP"

\* Positions of a started wait call before its increment of m_num_waiters.
EnteringPcs == {"h_lock", "w_entry", "w_lock_enter", "w_incr"}

\* Positions of do_timed_wait after the external mutex was unlocked.
UnlockedPcs == {"w_unlock_enter", "w_spin", "w_yield", "w_tout", "w_lock_check",
                "w_cas", "w_one_dec", "w_all_dec", "w_all_cas", "w_unlock_check",
                "w_exit", "w_relock"}

\* The threads whose wait has returned true.
Woken == {t \in Threads : ret[t] = "true"}

\* Thread t's call returns in this step.
Returns(t) == ret[t] = "none" /\ ret'[t] # "none"

----------------------------------------------------------------------------
\* C1: with only untimed waiters and a single notify_one call, at most one
\* waiter returns true; once it has, every other waiter that registered is
\* still in the loop, m_num_waiters counts exactly those, and m_command is
\* SLEEP; and the notification does make a waiter return true.
C1_Scenario ==
    /\ Cardinality({t \in Threads : op[t] = "notify_one"}) = 1
    /\ \A t \in Threads : op[t] \notin {"notify_all", "timed_wait"}

C1_OthersStay ==
    \A t \in Threads \ Woken :
        op[t] = "wait" =>
            \/ pc[t] \in EnteringPcs \cup {"w_unlock_mut", "w_unlock_enter"}
            \/ InLoop(t)

C1_Safe ==
    C1_Scenario =>
        /\ Cardinality(Woken) <= 1
        /\ Woken # {} =>
            /\ C1_OthersStay
            /\ m_num_waiters = Cardinality({t \in Threads : Registered(t)})
            /\ m_command = "SLEEP"

C1_NotifyOneWakesExactlyOne ==
    /\ []C1_Safe
    /\ (C1_Scenario /\ m_command = "NOTIFY_ONE") ~> (Woken # {})

\* Two waiters were registered, one has returned true, the other still spins.
C1_Witness ==
    /\ C1_Scenario
    /\ \E t, u \in Threads :
        /\ ret[t] = "true" /\ op[u] = "wait" /\ pc[u] \in {"w_spin", "w_yield"}
        /\ m_num_waiters = 1

\* C2: every waiter registered when notify_all has written NOTIFY_ALL
\* eventually returns true, and m_num_waiters reaches 0 with m_command SLEEP.
C2_NotifyAllWakesAll ==
    /\ \A t \in Threads :
        (m_command = "NOTIFY_ALL" /\ Registered(t)) ~> (ret[t] = "true")
    /\ (m_command = "NOTIFY_ALL") ~> (m_num_waiters = 0 /\ m_command = "SLEEP")

\* Two waiters woken by one notify_all have both returned true.
C2_Witness ==
    /\ \E n \in Threads : op[n] = "notify_all" /\ ret[n] = "void"
    /\ \A t \in Threads : op[t] # "notify_one"
    /\ Cardinality(Woken) >= 2
    /\ m_num_waiters = 0 /\ m_command = "SLEEP"

\* C3: a notify that reads m_num_waiters == 0 goes to the unlock-and-return
\* branch, changes neither m_command (SLEEP) nor m_num_waiters (0), and has
\* unlocked m_enter_mut when it returns.
C3_Step(t) ==
    /\ (pc[t] = "n_read" /\ m_num_waiters = 0 /\ pc'[t] # pc[t]) =>
            /\ pc'[t] = "n_unlock"
            /\ m_command = "SLEEP"
            /\ UNCHANGED <<m_command, m_num_waiters, m_enter_mut, m_check_mut>>
    /\ (pc[t] = "n_unlock" /\ pc'[t] # pc[t]) =>
            /\ Returns(t)
            /\ m_command' = "SLEEP" /\ m_num_waiters' = 0
            /\ UNCHANGED <<m_command, m_num_waiters, m_check_mut>>
            /\ ~m_enter_mut'

C3_NotifyWithoutWaitersIsNoOp == [][\A t \in Threads : C3_Step(t)]_vars

\* No thread has registered yet, a notify has returned (through the
\* zero-waiter branch) and a later caller has taken m_enter_mut.
C3_Witness ==
    \E n, t \in Threads :
        /\ op[n] \in NotifyOps /\ ret[n] = "void"
        /\ m_command = "SLEEP" /\ m_num_waiters = 0
        /\ \A u \in Threads : op[u] \in WaitOps => pc[u] \in EnteringPcs
        /\ pc[t] \in {"w_incr", "n_read"} /\ ret[t] = "none"

\* C4: a wait or timed wait that returns, on any path, returns with the
\* external mutex owned by the caller.
C4_ReturnsWithMutex ==
    [][\A t \in Threads : (op[t] \in WaitOps /\ Returns(t)) => mut' = t]_vars

\* One wait returned true and one timed wait returned false; the latter
\* still owns the mutex.
C4_Witness ==
    \E t, u \in Threads :
        /\ op[t] \in WaitOps /\ ret[t] = "true"
        /\ op[u] = "timed_wait" /\ ret[u] = "false" /\ mut = u

\* C5: from the unlock of the external mutex to the relock before return
\* (spin, timeout step, check section, release of m_enter_mut) the waiting
\* thread does not own the external mutex.
C5_MutexNotHeldWhileWaiting ==
    \A t \in Threads : pc[t] \in UnlockedPcs => mut # t

\* A waiter is consuming a notification while another thread owns the mutex.
C5_Witness ==
    \E t, u \in Threads :
        /\ pc[t] \in {"w_cas", "w_one_dec", "w_all_dec"}
        /\ mut = u /\ u # t

\* A notification is in flight: a notifier holds m_enter_mut having found (or
\* about to find) waiters, or m_command is written and not yet consumed, or
\* the consuming waiter has not yet unlocked m_enter_mut.
InFlight ==
    \/ \E n \in Threads : pc[n] \in {"n_read", "n_cas"} /\ m_num_waiters > 0
    \/ m_command # "SLEEP"
    \/ \E w \in Threads :
        /\ ~timed_out[w]
        /\ \/ pc[w] = "w_one_dec"
           \/ unlock_enter_mut[w] /\ pc[w] \in {"w_all_cas", "w_unlock_check", "w_exit"}

\* C6: no waiter takes the timeout exit (a successful try_lock with the
\* deadline passed) while a notification is in flight; and a sole registered
\* waiter whose deadline has passed while a notifier holds m_enter_mut
\* returns true.
C6_TimeoutStep(t) == (~timed_out[t] /\ timed_out'[t]) => ~InFlight

C6_NoTimeoutDuringNotification ==
    /\ [][\A t \in Threads : C6_TimeoutStep(t)]_vars
    /\ \A t \in Threads :
        (/\ op[t] = "timed_wait" /\ Registered(t) /\ now >= abs_time[t]
         /\ m_num_waiters = 1
         /\ \E n \in Threads : pc[n] \in {"n_read", "n_cas"})
        ~> (ret[t] = "true")

\* A timed waiter whose deadline passed before the notifier wrote m_command
\* has consumed the notification.
C6_Witness ==
    \E t \in Threads :
        /\ op[t] = "timed_wait" /\ now >= abs_time[t]
        /\ pc[t] \in {"w_one_dec", "w_all_dec"}
        /\ m_num_waiters = 1

\* C7: a timed wait entered with now >= abs_time returns false in its first
\* step, changing none of m_command, m_num_waiters, m_enter_mut, m_check_mut,
\* with the external mutex owned by the caller before and after.
C7_Step(t) ==
    (/\ pc[t] = "w_entry" /\ op[t] = "timed_wait" /\ now >= abs_time[t]
     /\ pc'[t] # pc[t]) =>
        /\ Returns(t) /\ ret'[t] = "false"
        /\ UNCHANGED <<m_command, m_num_waiters, m_enter_mut, m_check_mut>>
        /\ mut = t /\ mut' = t

C7_PastDeadlineReturnsFalse == [][\A t \in Threads : C7_Step(t)]_vars

\* A timed wait has returned false while another thread is registered: it
\* did not go through the timeout exit, which would have been its own
\* registration.
C7_Witness ==
    \E t, u \in Threads :
        /\ op[t] = "timed_wait" /\ ret[t] = "false" /\ mut = t
        /\ op[u] = "wait" /\ pc[u] = "w_spin"
        /\ m_num_waiters = 1 /\ now = 0

\* The calls made so far are all waits.
NoNotifier == \A u \in Threads : op[u] \notin NotifyOps

\* Thread t is the only one that has made a call.
OnlyCaller(t) == \A u \in Threads \ {t} : op[u] = "none"

\* C8: a registered timed waiter whose deadline has passed returns false
\* owning the external mutex, unless a notifier acts; when it is the only
\* caller, m_num_waiters is 0 and m_enter_mut is unlocked at its return.
C8_Returned(t) ==
    /\ ret[t] = "false" /\ mut = t
    /\ OnlyCaller(t) => (m_num_waiters = 0 /\ ~m_enter_mut /\ m_command = "SLEEP")

C8_TimeoutEventuallyReturnsFalse ==
    \A t \in Threads :
        (op[t] = "timed_wait" /\ Registered(t) /\ now >= abs_time[t] /\ NoNotifier)
        ~> (C8_Returned(t) \/ ~NoNotifier)

\* The only caller registered before its deadline and has returned false.
C8_Witness ==
    \E t \in Threads :
        /\ OnlyCaller(t) /\ op[t] = "timed_wait"
        /\ ret[t] = "false" /\ pc[t] = "h_unlock"
        /\ now > 0 /\ m_num_waiters = 0 /\ ~m_enter_mut

\* C9: every notify call returns, whether or not the caller owns the
\* external mutex, whoever holds m_enter_mut when it is called.
C9_NotifyEventuallyReturns ==
    \A t \in Threads :
        (op[t] \in NotifyOps /\ pc[t] = "n_lock_enter") ~> (ret[t] = "void")

\* A notifier owning the external mutex is blocked on m_enter_mut, held for
\* a notification that is not yet consumed.
C9_Witness ==
    \E t \in Threads :
        /\ pc[t] = "n_lock_enter" /\ mut = t
        /\ m_enter_mut /\ m_command # "SLEEP"

\* C10: no thread is in the registration section (increment, unlock of the
\* external mutex) while a notification is in flight, and a wait returns true
\* only if a notify wrote m_command while the thread was registered.
C10_RegisterStep(t) ==
    (pc'[t] \in {"w_incr", "w_unlock_mut", "w_unlock_enter"}) => ~InFlight'

C10_ReturnStep(t) == (Returns(t) /\ ret'[t] = "true") => notified[t]

C10_WokenOnlyByOwnNotification ==
    [][\A t \in Threads : C10_RegisterStep(t) /\ C10_ReturnStep(t)]_vars

\* A thread is blocked entering wait while a notification is in flight, and
\* a registered waiter has been notified.
C10_Witness ==
    \E t, u \in Threads :
        /\ pc[t] = "w_lock_enter" /\ m_command # "SLEEP"
        /\ Registered(u) /\ notified[u]

\* The threads inside notify() between m_enter_mut.lock() and the return.
NotifierSection == {n \in Threads : pc[n] \in {"n_read", "n_unlock", "n_cas"}}

\* A notify has written m_command and the waiter consuming it has not yet
\* unlocked m_enter_mut.
Written ==
    \/ m_command # "SLEEP"
    \/ \E w \in Threads :
        /\ ~timed_out[w]
        /\ \/ pc[w] = "w_one_dec"
           \/ unlock_enter_mut[w] /\ pc[w] \in {"w_all_cas", "w_unlock_check", "w_exit"}

\* C11: at most one thread is past m_enter_mut.lock() in notify(), and none
\* is from the moment m_command is written until the consuming waiter has
\* set it back to SLEEP and unlocked m_enter_mut: no second notify reads
\* m_num_waiters or writes m_command in between.
C11_OneNotificationInFlight ==
    /\ Cardinality(NotifierSection) <= 1
    /\ Written => NotifierSection = {}

\* A second notifier is blocked on m_enter_mut, held for a notification
\* that is written and not yet consumed.
C11_Witness ==
    \E n, k \in Threads :
        /\ n # k /\ op[n] \in NotifyOps /\ ret[n] = "void"
        /\ pc[k] = "n_lock_enter" /\ m_command # "SLEEP" /\ m_enter_mut

\* The waiters that have taken the notify-one branch (result == NOTIFY_ONE)
\* and have not yet returned.
TookOne == {t \in MoreThreads : result[t] = "NOTIFY_ONE"}

\* C12, as stated: the waiters that have returned through the notify-one
\* branch are never more than the NOTIFY_ONE commands written and at most
\* one fewer.
C12_ReturnedAtMostOneBehind ==
    /\ one_pending + Cardinality(TookOne) >= 0
    /\ one_pending + Cardinality(TookOne) <= 1

\* C12, amended: the waiters that have taken the notify-one branch are never
\* more than the NOTIFY_ONE commands written and at most one fewer, exactly
\* when m_command is NOTIFY_ONE; each of them returns true (it has not timed
\* out) but may still be on its way to the return.
C12_ConsumedAtMostOneBehind ==
    /\ one_pending \in {0, 1}
    /\ one_pending = 1 <=> m_command = "NOTIFY_ONE"
    /\ \A t \in TookOne : ~timed_out[t] /\ pc[t] \in {"w_one_dec", "w_unlock_check", "w_exit", "w_relock"}

\* Two NOTIFY_ONE commands were written and consumed by two waiters, neither
\* of which has returned yet.
C12_Witness ==
    /\ Cardinality(TookOne) = 2
    /\ one_pending = 0
    /\ Cardinality({n \in MoreThreads : op[n] = "notify_one" /\ ret[n] = "void"}) = 2

\* The waiters at the compare-exchange of the NOTIFY_ALL branch.
AtAllCas == {t \in Threads : pc[t] = "w_all_cas"}

\* Thread t takes a step of its exit from a NOTIFY_ALL that it is not the
\* last to leave: the decrement with a non-zero result, or a later step with
\* unlock_enter_mut false.
LeavesAllNotLast(t) ==
    /\ result[t] = "NOTIFY_ALL"
    /\ pc'[t] # pc[t]
    /\ \/ pc[t] = "w_all_dec" /\ m_num_waiters' # 0
       \/ pc[t] \in {"w_unlock_check", "w_exit", "w_relock"} /\ ~unlock_enter_mut[t]

\* The step that takes m_command out of NOTIFY_ALL.
AllReset == m_command = "NOTIFY_ALL" /\ m_command' # "NOTIFY_ALL"

\* C13: m_command leaves NOTIFY_ALL only to SLEEP and only by the step of the
\* one waiter whose decrement brought m_num_waiters to 0; that waiter's
\* compare-exchange finds NOTIFY_ALL, so it resets the command once; every
\* other waiter leaving on the NOTIFY_ALL changes neither m_command nor
\* m_enter_mut.
C13_NotifyAllResetByLastWaiter ==
    /\ [](/\ Cardinality(AtAllCas) <= 1
          /\ \A t \in AtAllCas : m_command = "NOTIFY_ALL" /\ m_num_waiters = 0
                                  /\ unlock_enter_mut[t] /\ m_enter_mut
          /\ m_command = "NOTIFY_ALL" /\ m_num_waiters = 0 => AtAllCas # {})
    /\ [][/\ AllReset =>
              /\ m_command' = "SLEEP"
              /\ \E t \in AtAllCas : pc'[t] = "w_unlock_check"
          /\ \A t \in Threads : LeavesAllNotLast(t) =>
              /\ m_command' = m_command
              /\ m_enter_mut' = m_enter_mut]_vars

\* The last waiter of a NOTIFY_ALL has set m_command back to SLEEP and is
\* about to unlock m_enter_mut, while another waiter woken by the same
\* NOTIFY_ALL is still leaving without the flag.
C13_Witness ==
    \E t, u \in Threads :
        /\ t # u
        /\ result[t] = "NOTIFY_ALL" /\ unlock_enter_mut[t] /\ pc[t] = "w_exit"
        /\ m_command = "SLEEP" /\ m_enter_mut
        /\ result[u] = "NOTIFY_ALL" /\ ~unlock_enter_mut[u] /\ pc[u] \in {"w_exit", "w_relock"}

\* The threads that have incremented m_num_waiters (line 91) and have not
\* yet decremented it (line 136, 154 or 162).
RegisteredThreads == {t \in Threads : Registered(t)}

\* C14: m_num_waiters is never negative and is the number of threads between
\* their registration increment and their exit decrement.
C14_WaiterCountIsRegistered ==
    /\ m_num_waiters >= 0
    /\ m_num_waiters = Cardinality(RegisteredThreads)

\* The count stands at one after two waiters registered and one of them
\* left by its decrement: the other is still in the wait loop.
C14_Witness ==
    \E t, u \in Threads :
        /\ t # u
        /\ op[t] \in WaitOps /\ pc[t] \in {"w_unlock_check", "w_exit", "w_relock"}
        /\ (timed_out[t] \/ result[t] # "SLEEP")
        /\ InLoop(u) /\ Registered(u)
        /\ m_num_waiters = 1

\* The threads that hold m_enter_mut by an acquisition of their own: a
\* registering waiter inside its scoped lock (lines 86-95), a notifier from
\* its lock() to its return (lines 46-56), a waiter that timed out from its
\* try_lock() to its unlock (lines 108-177).
OwnHolders ==
    {t \in Threads :
        \/ pc[t] \in {"w_incr", "w_unlock_mut", "w_unlock_enter"}
        \/ pc[t] \in {"n_read", "n_unlock", "n_cas"}
        \/ pc[t] = "w_tout"
        \/ timed_out[t] /\ unlock_enter_mut[t] /\ pc[t] = "w_exit"}

\* The waiters that have taken over a notifier's acquisition and still have
\* to release it: the NOTIFY_ONE consumer and the last NOTIFY_ALL waiter.
Releasers ==
    {t \in Threads :
        /\ ~timed_out[t]
        /\ \/ pc[t] = "w_one_dec"
           \/ unlock_enter_mut[t] /\ pc[t] \in {"w_all_cas", "w_unlock_check", "w_exit"}}

\* Thread t takes a step that calls m_enter_mut.unlock().
UnlocksEnter(t) ==
    /\ pc'[t] # pc[t]
    /\ \/ pc[t] \in {"w_unlock_enter", "n_unlock"}
       \/ pc[t] = "w_exit" /\ unlock_enter_mut[t]

\* C15: m_enter_mut is locked exactly while one thread holds it by its own
\* acquisition, or a notifier's acquisition waits in m_command for its
\* waiter, or the one waiter that took it over has not released it yet;
\* these never overlap, except that the last NOTIFY_ALL waiter resets
\* m_command after it has taken over; every unlock() is called by that one
\* thread with the lock held and frees it; a waiter that timed out releases
\* no notifier's acquisition.
C15_EnterLockReleasedOncePerAcquisition ==
    /\ [](/\ Cardinality(OwnHolders \cup Releasers) <= 1
          /\ m_enter_mut <=> (OwnHolders \cup Releasers # {} \/ m_command # "SLEEP")
          /\ m_command # "SLEEP" => OwnHolders = {} /\ \A t \in Releasers : pc[t] = "w_all_cas"
          /\ \A t \in Threads : pc[t] = "w_exit" /\ unlock_enter_mut[t] =>
                t \in OwnHolders \cup Releasers)
    /\ [][\A t \in Threads : UnlocksEnter(t) =>
            /\ m_enter_mut /\ ~m_enter_mut'
            /\ t \in OwnHolders \cup Releasers]_vars

\* A consumer has released the acquisition of the notify that woke it, and
\* a waiter that timed out has released the one it made with try_lock();
\* m_enter_mut is free again.
C15_Witness ==
    \E t, u \in Threads :
        /\ t # u
        /\ pc[t] = "w_relock" /\ ~timed_out[t] /\ unlock_enter_mut[t]
        /\ pc[u] = "w_relock" /\ timed_out[u] /\ unlock_enter_mut[u]
        /\ ~m_enter_mut

\* C16: in the state a notify_one or notify_all call returns to, a zero
\* m_num_waiters comes with m_command SLEEP.
C16_NoWaitersAfterNotifyMeansSleep ==
    [][\A n \in Threads :
         Returns(n) /\ op[n] \in NotifyOps /\ m_num_waiters' = 0 => m_command' = "SLEEP"]_vars

\* A notify_all has just returned with no waiter counted and m_command SLEEP,
\* after a timed waiter had registered and left by its timeout.
C16_Witness ==
    \E n, u \in Threads :
        /\ op[n] = "notify_all" /\ ret[n] = "void"
        /\ m_num_waiters = 0 /\ m_command = "SLEEP" /\ ~m_enter_mut
        /\ op[u] = "timed_wait" /\ timed_out[u] /\ pc[u] = "w_relock"

\* The waiters that have released the external mutex in do_timed_wait
\* (line 94) and have not yet decremented m_num_waiters.
ReleasedWaiters ==
    {t \in Threads :
        \/ pc[t] \in {"w_unlock_enter", "w_spin", "w_yield", "w_tout", "w_lock_check",
                      "w_cas", "w_one_dec", "w_all_dec"}
        \/ pc[t] = "w_unlock_check" /\ result[t] = "SLEEP"}

\* C17: no notifier is at its read of m_num_waiters while a waiter is between
\* its increment and mut.unlock(); every waiter that has released the
\* external mutex is counted in m_num_waiters; and a notifier takes the
\* zero-waiter branch only when no waiter is registered.
C17_RegistrationAtomicWithRelease ==
    /\ [](/\ \A n, w \in Threads : ~(pc[n] = "n_read" /\ pc[w] = "w_unlock_mut")
          /\ m_num_waiters >= Cardinality(ReleasedWaiters))
    /\ [][\A n \in Threads :
            pc[n] = "n_read" /\ pc'[n] = "n_unlock" =>
                /\ m_num_waiters = 0
                /\ ReleasedWaiters = {}
                /\ \A w \in Threads : pc[w] # "w_unlock_mut"]_vars

\* A notifier that holds the external mutex has read a non-zero
\* m_num_waiters and is about to write its command for a waiter that
\* released the mutex before.
C17_Witness ==
    \E n, w \in Threads :
        /\ pc[n] = "n_cas" /\ mut = n
        /\ w \in ReleasedWaiters /\ m_num_waiters = 1

\* Thread t's m_enter_mut.try_lock() (line 116) succeeds.
TakesTryLock(t) == pc[t] = "w_yield" /\ pc'[t] = "w_tout"

\* A do_wait call never takes the timeout path: at the yield it leaves
\* m_enter_mut alone and goes back to the spin, it is never timed out, and it
\* returns true, from the NOTIFY_ONE or the NOTIFY_ALL branch.
WaitNeverTimesOut ==
    \A t \in Threads : op[t] = "wait" =>
        /\ ~TakesTryLock(t) /\ ~timed_out'[t] /\ pc'[t] # "w_tout"
        /\ pc[t] = "w_yield" /\ pc'[t] # pc[t] => pc'[t] = "w_spin" /\ m_enter_mut' = m_enter_mut
        /\ Returns(t) => /\ ret'[t] = "true" /\ pc[t] = "w_relock"
                         /\ result[t] \in {"NOTIFY_ONE", "NOTIFY_ALL"}

\* timed_out becomes true only by a try_lock() that succeeds, which happens
\* in a call with a deadline, at or after the deadline, with m_enter_mut
\* free and m_command SLEEP.
TimeoutIsGenuine ==
    \A t \in Threads :
        /\ ~timed_out[t] /\ timed_out'[t] => TakesTryLock(t)
        /\ TakesTryLock(t) =>
            /\ tout_enabled(t) /\ now >= abs_time[t]
            /\ ~m_enter_mut /\ m_enter_mut' /\ m_command = "SLEEP"

\* C18, as stated: a do_wait call never takes the timeout path, and a
\* timed wait returns false only at or after its deadline and after it has
\* acquired m_enter_mut by try_lock() with m_command SLEEP.
C18_FalseOnlyAfterTryLock ==
    [][/\ WaitNeverTimesOut
       /\ TimeoutIsGenuine
       /\ \A t \in Threads : Returns(t) /\ ret'[t] = "false" =>
            /\ tout_enabled(t) /\ now >= abs_time[t]
            /\ pc[t] = "w_relock" /\ timed_out[t]]_vars

\* C18, amended: a do_wait call never takes the timeout path, and a timed
\* wait returns false only at or after its deadline: either at the entry
\* check (line 79), before it touches any lock or m_num_waiters, or after it
\* has acquired m_enter_mut by try_lock() with m_command SLEEP.
C18_FalseOnlyAfterDeadline ==
    [][/\ WaitNeverTimesOut
       /\ TimeoutIsGenuine
       /\ \A t \in Threads : Returns(t) /\ ret'[t] = "false" =>
            /\ tout_enabled(t) /\ now >= abs_time[t]
            /\ \/ pc[t] = "w_entry" /\ UNCHANGED shared
               \/ pc[t] = "w_relock" /\ timed_out[t]]_vars

\* A timed wait has acquired m_enter_mut by try_lock() and is returning
\* false, and a do_wait call is still in its loop at the same time, past
\* the deadline the timed wait had.
C18_Witness ==
    \E t, u \in Threads :
        /\ op[t] = "timed_wait" /\ timed_out[t] /\ pc[t] = "w_relock"
        /\ op[u] = "wait" /\ InLoop(u) /\ ~timed_out[u]
        /\ now >= abs_time[t]

\* The registered waiters that can still take a command: those in the wait
\* loop that have not committed to their timeout.
Consumers == {w \in ReleasedWaiters : pc[w] # "w_tout" /\ ~timed_out[w]}

\* C19: with m_enter_mut free m_command is SLEEP; a notifier between its
\* lock() and its compare-exchange finds m_command SLEEP, and at the
\* compare-exchange a waiter is registered to take the command; a written
\* command keeps m_enter_mut locked and has a waiter to consume it, and it
\* is consumed: m_enter_mut is eventually released.
C19_FreeEnterLockMeansSleep ==
    /\ [](/\ ~m_enter_mut => m_command = "SLEEP"
          /\ \A n \in NotifierSection : m_command = "SLEEP"
          /\ \A n \in Threads : pc[n] = "n_cas" => m_num_waiters > 0 /\ Consumers # {}
          /\ m_command # "SLEEP" => m_enter_mut /\ (Consumers # {} \/ AtAllCas # {}))
    /\ [][\A n \in Threads : pc[n] = "n_cas" /\ pc'[n] # pc[n] =>
            m_command' = NotifyCommand(n) /\ m_enter_mut']_vars
    /\ (m_command # "SLEEP" ~> ~m_enter_mut)

\* A notify has returned leaving its command and the locked m_enter_mut
\* behind, and a registered waiter is at the compare-exchange that takes the
\* command.
C19_Witness ==
    \E n, w \in Threads :
        /\ op[n] \in NotifyOps /\ ret[n] = "void"
        /\ m_command # "SLEEP" /\ m_enter_mut
        /\ pc[w] = "w_cas" /\ w \in Consumers

\* The threads inside a call or holding the external mutex around one.
Active == {t \in Threads : pc[t] # "idle"}

\* Thread t is at a lock() of a mutex that is locked: the external mutex
\* (the caller's lock, line 180), m_enter_mut (lines 46, 86) or m_check_mut
\* (line 142).
Blocked(t) ==
    \/ pc[t] \in {"h_lock", "w_relock"} /\ mut # NoThread
    \/ pc[t] \in {"n_lock_enter", "w_lock_enter"} /\ m_enter_mut
    \/ pc[t] = "w_lock_check" /\ m_check_mut

\* Thread t spins on a SLEEP command: it waits for a notify or its deadline,
\* not for a lock.
AwaitsCommand(t) == pc[t] \in {"w_spin", "w_yield"} /\ m_command = "SLEEP"

\* The threads between m_check_mut's lock() and its unlock (lines 142-171).
CheckHolders ==
    {t \in Threads : pc[t] \in {"w_cas", "w_one_dec", "w_all_dec", "w_all_cas",
                                "w_unlock_check"}}

\* C20: the active threads are never all blocked on lock() calls, and a
\* blocked thread always has an active thread beside it that is neither
\* blocked nor spinning for a command; a thread at a lock() of the external
\* mutex or of m_check_mut holds no acquisition of m_enter_mut of its own
\* (if m_enter_mut is locked, another thread or a written command accounts
\* for it); m_check_mut is locked exactly while one thread is between its
\* lock() and its unlock, so never by a thread that spins or has returned.
C20_DeadlockFree ==
    /\ Active # {} => \E t \in Active : ~Blocked(t)
    /\ (\E b \in Threads : Blocked(b)) =>
            \E t \in Active : ~Blocked(t) /\ ~AwaitsCommand(t)
    /\ \A t \in Threads :
        pc[t] \in {"h_lock", "w_relock", "w_lock_check"} /\ m_enter_mut =>
            \/ m_command # "SLEEP"
            \/ \E u \in (OwnHolders \cup Releasers) : u # t
    /\ Cardinality(CheckHolders) = (IF m_check_mut THEN 1 ELSE 0)

\* A notifier holding the external mutex is blocked on m_enter_mut and a
\* caller is blocked on the external mutex, while the waiter that timed out
\* holds m_enter_mut and goes on to release it.
C20_Witness ==
    \E n, w, c \in Threads :
        /\ pc[n] = "n_lock_enter" /\ mut = n /\ m_enter_mut
        /\ pc[c] = "h_lock"
        /\ timed_out[w] /\ pc[w] \in {"w_tout", "w_exit"}

====
